---- MODULE Spec2Model ----
(***************************************************************************)
(* Model of finish_remaining_prs.py: the branch repair driver.  For each   *)
(* entry of remaining_branches the driver creates <branch>-clean, picks a  *)
(* commit from the log of origin/<branch>, cherry-picks it, and force      *)
(* pushes the result over <branch>.                                        *)
(*                                                                         *)
(* Text is modelled as a sequence of one-character strings, so that        *)
(* lower(), the substring test `in` and split() are computed, not assumed. *)
(* A commit (the value of a ref) is the sequence of commit ids on it; the  *)
(* empty sequence stands for a ref that does not exist.                    *)
(***************************************************************************)
EXTENDS Integers, Sequences, FiniteSets, TLC

\* the position and the locals of main(), and what the run has issued
VARIABLES pc, idx, commits, returncode, test_commit, last, replay, trace

\* the transcript record that carries a command text and was printed last;
\* whether every `git checkout main` and `git checkout -b` so far succeeded;
\* what the same run issues with the seed commits of the source
VARIABLES logged, checkouts_ok, twin

\* the repository: HEAD, the local refs, the remote branches, the
\* cherry-pick in progress
VARIABLES head, tip, origin, pick

\* which driver instance moved HEAD last (0: none yet), and the commands
\* that changed the ref under a HEAD the other instance had put there
VARIABLES mover, raced

\* the setting of the run: which commands may fail and how; the table in
\* use; the number of the run and what the first run pushed; the driver
\* instance that is running, the locals of the other one, and how often the
\* processor went from one to the other
VARIABLES mode, table, run, pushed1, active, other, switches

locals == <<pc, idx, commits, returncode, test_commit, last, replay, trace,
            logged, checkouts_ok, twin>>

repo == <<head, tip, origin, pick, mover, raced>>

setting == <<mode, table, run, pushed1, active, other, switches>>

vars == <<locals, repo, setting>>

-----------------------------------------------------------------------------
(* Bounds of the model. *)

\* longest run of log lines that follows the padding lines of a log
MaxTail == 2

\* how often the processor goes from one driver instance to the other
MaxSwitches == 2

-----------------------------------------------------------------------------
(* Program constants. *)

\* `head -10`
HEAD_COUNT == 10

remaining_branches ==
    << [branch_name |-> "feature/add-server-components-tests",
        commit_hash |-> <<"7","c","5","0","3","7","8">>],
       [branch_name |-> "feature/add-integration-tests",
        commit_hash |-> <<"6","9","f","2","d","0","a">>] >>

NumBranches == Len(remaining_branches)

BranchName(k) == remaining_branches[k].branch_name

Branches == { BranchName(k) : k \in 1..NumBranches }

\* clean_branch = f"{branch_name}-clean"
clean_branch(b) == b \o "-clean"

MAIN == "main"

Refs == {MAIN} \cup Branches \cup { clean_branch(b) : b \in Branches }

-----------------------------------------------------------------------------
(* Text: lower(), `in`, split(). *)

UpperCase == <<"A","B","C","D","E","F","G","H","I","J","K","L","M",
               "N","O","P","Q","R","S","T","U","V","W","X","Y","Z">>
LowerCase == <<"a","b","c","d","e","f","g","h","i","j","k","l","m",
               "n","o","p","q","r","s","t","u","v","w","x","y","z">>

LowerChar(c) ==
    IF \E k \in 1..Len(UpperCase) : UpperCase[k] = c
    THEN LowerCase[CHOOSE k \in 1..Len(UpperCase) : UpperCase[k] = c]
    ELSE c

\* str.lower()
Lower(s) == [k \in 1..Len(s) |-> LowerChar(s[k])]

\* sub in s
Contains(s, sub) ==
    \E k \in 0..(Len(s) - Len(sub)) : SubSeq(s, k + 1, k + Len(sub)) = sub

\* position of the first blank of s at or after k, Len(s)+1 if there is none
RECURSIVE FirstBlank(_, _)
FirstBlank(s, k) ==
    IF k > Len(s) THEN k
    ELSE IF s[k] = " " THEN k
    ELSE FirstBlank(s, k + 1)

\* position of the first non-blank of s at or after k, Len(s)+1 if none
RECURSIVE FirstNonBlank(_, _)
FirstNonBlank(s, k) ==
    IF k > Len(s) THEN k
    ELSE IF s[k] # " " THEN k
    ELSE FirstNonBlank(s, k + 1)

\* commit.split()[0]: the first whitespace-separated word of the line
FirstWord(s) ==
    LET b == FirstNonBlank(s, 1)
        e == FirstBlank(s, b)
    IN  SubSeq(s, b, e - 1)

\* the subject of a log line: what follows the short hash
SubjectOf(line) ==
    LET b == FirstNonBlank(line, 1)
        e == FirstBlank(line, b)
    IN  SubSeq(line, e + 1, Len(line))

KW_test   == <<"t","e","s","t">>
KW_feat   == <<"f","e","a","t",":">>
KW_add    == <<"a","d","d">>
KW_lock   == <<"c","a","r","g","o",".","l","o","c","k">>
KW_format == <<"f","o","r","m","a","t">>

\* ['test', 'feat:', 'add']
Keywords == {KW_test, KW_feat, KW_add}

\* no commit: test_commit = None
None == <<>>

\* any(keyword in commit.lower() for keyword in ['test', 'feat:', 'add'])
HasKeyword(commit) == \E keyword \in Keywords : Contains(Lower(commit), keyword)

\* the exclusion with its second test left out
NotExcluded_LockOnly(commit) == ~Contains(Lower(commit), KW_lock)

\* 'cargo.lock' not in commit.lower() and 'format' not in commit.lower()
NotExcluded(commit) ==
    /\ ~Contains(Lower(commit), KW_lock)
    /\ ~Contains(Lower(commit), KW_format)

\* the loop over commits with its break: the first word of the first line
\* at or after k that passes both tests, None when there is none
RECURSIVE SelectFrom(_, _)
SelectFrom(lines, k) ==
    IF k > Len(lines) THEN None
    ELSE IF HasKeyword(lines[k]) /\ NotExcluded(lines[k]) THEN FirstWord(lines[k])
    ELSE SelectFrom(lines, k + 1)

SelectCommit(lines) == SelectFrom(lines, 1)

\* `| head -10` on the lines git log prints
HeadLines(lines) ==
    SubSeq(lines, 1, IF Len(lines) < HEAD_COUNT THEN Len(lines) ELSE HEAD_COUNT)

\* result.stdout.strip().split('\n'): an empty output gives one empty line
SplitLines(lines) == IF Len(lines) = 0 THEN << <<>> >> ELSE lines

-----------------------------------------------------------------------------
(* The logs of origin/<branch> the model draws from. *)

L_feat    == <<"a","1"," ","F","e","a","t",":"," ","x">>
L_hashadd == <<"a","d","d","3"," ","f","i","x">>
L_addlock == <<"e","4"," ","A","d","d"," ","C","a","r","g","o",".","L","o","c","k">>
L_testfmt == <<"b","5"," ","t","e","s","t"," ","F","o","r","m","a","t">>
L_docs    == <<"c","6"," ","d","o","c","s">>

LogLines == {L_feat, L_hashadd, L_addlock, L_testfmt}

\* a log lists a commit once
Tails ==
    { t \in UNION { [1..n -> LogLines] : n \in 0..MaxTail } :
        \A j, k \in 1..Len(t) : j # k => t[j] # t[k] }

Padding(n) == [k \in 1..n |-> L_docs]

\* how many uninteresting newer commits precede the tail: none, one less
\* than `head` lets through, or as many as it lets through
PadCounts == {0, HEAD_COUNT - 1, HEAD_COUNT}

LogInputs == { Padding(n) \o t : n \in PadCounts, t \in Tails }

\* the line of the commit with short hash c
LineOf(c) == CHOOSE l \in LogLines \cup {L_docs} : FirstWord(l) = c

\* short hashes git may give a replayed commit: a cherry-pick is a new
\* commit with a hash of its own; one of the two happens to contain `add`
NewHashes == { <<"9","f">>, <<"0","a","d","d">> }

-----------------------------------------------------------------------------
(* run_cmd and the repository the commands act on. *)

\* what can become of a command run by run_cmd: exit status 0, a non-zero
\* exit status, or subprocess.TimeoutExpired
Outcomes == {"ok", "fail", "timeout"}

\* the value run_cmd returns
run_cmd(o) == o = "ok"

\* `<command> || true`: the shell exits 0 whatever the command did
OrTrue(o) == IF o = "timeout" THEN "timeout" ELSE "ok"

Cmd(c, r, h) == [cmd |-> c, ref |-> r, commit |-> h]

\* print(f"\n🔧 修复分支: {branch_name}"), kept in the trace to delimit iterations
Enter(b) == Cmd("ENTER", b, None)

Exists(r) == tip[r] # <<>>

NoPick == [st |-> "idle", c |-> None]

\* commit ids of the refs before the run: the script starts in a repository
\* left by an earlier repair, on the first branch, whose clean branch exists
MainTip  == << <<"M">> >>
OldTip   == << <<"O">> >>
StaleTip == << <<"S">> >>

-----------------------------------------------------------------------------
(* Control flow of main(): where each test of the code leads. *)

\* line 36: the for statement after the body was left for pair k, by
\* `continue` or at its end; after the last pair main() returns (line 98)
NextPair(k) == IF k < NumBranches THEN "loop" ELSE "done"

\* the else branch of `if test_commit` without its `continue`
AfterLog_NoContinue(rc, tc, k) ==
    IF rc # 0 THEN "checkout_branch"
    ELSE IF tc # None THEN "cherry_pick"
    ELSE "checkout_branch"

\* lines 49-80: `if result.returncode == 0`, `if test_commit`, `continue`
AfterLog(rc, tc, k) ==
    IF rc # 0 THEN "checkout_branch"
    ELSE IF tc # None THEN "cherry_pick"
    ELSE NextPair(k)

\* the test of line 65 inverted
AfterCherryPick_Inverted(ok) == IF ok THEN "theirs" ELSE "checkout_branch"

\* line 65: if run_cmd(f"git cherry-pick {test_commit}")
AfterCherryPick(ok) == IF ok THEN "checkout_branch" ELSE "theirs"

\* the test of line 72 inverted
AfterContinue_Inverted(ok) == IF ok THEN "abort" ELSE "checkout_branch"

\* line 72: if run_cmd("git cherry-pick --continue")
AfterContinue(ok) == IF ok THEN "checkout_branch" ELSE "abort"

\* the abort without its `continue`: the body goes on to the publish part
AfterAbort_FallThrough(k) == "checkout_branch"

\* the abort followed by `break` instead of `continue`
AfterAbort_Break(k) == "done"

\* the abort followed by a rollback: the clean branch is deleted and main
\* checked out before the next pair
AfterAbort_Cleanup(k) == "delete_clean"

\* lines 76-77: run_cmd("git cherry-pick --abort"); continue
AfterAbort(k) == NextPair(k)

\* line 96, the last statement of the loop body
AfterCleanup(k) == NextPair(k)

\* the steps of the publish part, lines 84-89
AfterCheckoutBranch == "reset"
AfterReset == "push"

\* the push repeated until it succeeds
AfterPush_Retry(ok) == IF ok THEN "delete_clean" ELSE "push"

\* lines 89-95: `if run_cmd(f"git push --force origin {branch_name}")` only
\* chooses the message; the cleanup follows in both cases
AfterPush(ok) == IF ok THEN "delete_clean" ELSE "delete_clean"

-----------------------------------------------------------------------------
\* before a second run: no record of a first one
NothingPushed == [content |-> <<>>, hash |-> None]

\* no command has been printed yet
NothingLogged == [kind |-> "none", cmd |-> Cmd("none", MAIN, None)]

\* the locals of a driver process that has not started
FreshLocals ==
    [pc |-> "start", idx |-> 1, commits |-> <<>>, returncode |-> 0,
     test_commit |-> None, last |-> "ok", replay |-> "none", trace |-> <<>>,
     logged |-> NothingLogged, checkouts_ok |-> TRUE, twin |-> <<>>]

\* the locals take the values of the record l
SetLocals(l) ==
    /\ pc' = l.pc
    /\ idx' = l.idx
    /\ commits' = l.commits
    /\ returncode' = l.returncode
    /\ test_commit' = l.test_commit
    /\ last' = l.last
    /\ replay' = l.replay
    /\ trace' = l.trace
    /\ logged' = l.logged
    /\ checkouts_ok' = l.checkouts_ok
    /\ twin' = l.twin

\* the locals as a record
CurrentLocals ==
    [pc |-> pc, idx |-> idx, commits |-> commits, returncode |-> returncode,
     test_commit |-> test_commit, last |-> last, replay |-> replay,
     trace |-> trace, logged |-> logged, checkouts_ok |-> checkouts_ok,
     twin |-> twin]

\* main() is entered: nothing issued, the repository as an earlier repair
\* left it
Started ==
    /\ pc = "start"
    /\ idx = 1
    /\ commits = <<>>
    /\ returncode = 0
    /\ test_commit = None
    /\ last = "ok"
    /\ replay = "none"
    /\ trace = <<>>
    /\ logged = NothingLogged
    /\ checkouts_ok = TRUE
    /\ twin = <<>>
    /\ run = 1
    /\ pushed1 = [b \in Branches |-> NothingPushed]
    /\ active = 1
    /\ other = FreshLocals
    /\ switches = 0
    /\ head = BranchName(1)
    /\ tip = [r \in Refs |->
                IF r = MAIN THEN MainTip
                ELSE IF r \in Branches THEN OldTip
                ELSE IF r = clean_branch(BranchName(1)) THEN StaleTip
                ELSE <<>>]
    /\ origin = [b \in Branches |-> OldTip]
    /\ pick = NoPick
    /\ mover = 0
    /\ raced = {}

\* one driver, the table of the source, commands that may fail or time out
Init ==
    /\ Started
    /\ mode = "single"
    /\ table = remaining_branches

\* what git makes of a command it can carry out when `can` holds.  In a
\* single run the command may fail or time out all the same (a lock held,
\* the disk, the network); in the other settings the commands are reliable.
Outcome(o, can) ==
    IF mode = "single" THEN o = "ok" => can
    ELSE o = (IF can THEN "ok" ELSE "fail")

\* the command moved a ref through a HEAD that the other instance put in place
Raced(c, o) ==
    IF o = "ok" /\ mover \notin {0, active} THEN raced \cup {c} ELSE raced

\* git checkout <r>: moves HEAD when the ref exists
Checkout(r, o) ==
    /\ Outcome(o, Exists(r))
    /\ head' = IF o = "ok" THEN r ELSE head
    /\ mover' = IF o = "ok" THEN active ELSE mover
    /\ UNCHANGED <<tip, origin, pick, raced>>

\* git branch -D <r>: deletes a ref that exists and is not checked out
BranchDelete(r, o) ==
    /\ Outcome(o, Exists(r) /\ head # r)
    /\ tip' = IF o = "ok" THEN [tip EXCEPT ![r] = <<>>] ELSE tip
    /\ UNCHANGED <<head, origin, pick, mover, raced>>

\* `git branch <r>` in place of `git checkout -b <r>`: HEAD stays
CheckoutNew_NoSwitch(r, o) ==
    /\ Outcome(o, ~Exists(r))
    /\ tip' = IF o = "ok" THEN [tip EXCEPT ![r] = tip[head]] ELSE tip
    /\ UNCHANGED <<head, origin, pick, mover, raced>>

\* git checkout -b <r>: creates the ref at HEAD's commit and moves HEAD there
CheckoutNew(r, o) ==
    /\ Outcome(o, ~Exists(r))
    /\ tip' = IF o = "ok" THEN [tip EXCEPT ![r] = tip[head]] ELSE tip
    /\ head' = IF o = "ok" THEN r ELSE head
    /\ mover' = IF o = "ok" THEN active ELSE mover
    /\ UNCHANGED <<origin, pick, raced>>

\* git reset --hard <r>: moves the checked-out ref to r's commit
ResetHard(r, o) ==
    /\ Outcome(o, Exists(r))
    /\ tip' = IF o = "ok" THEN [tip EXCEPT ![head] = tip[r]] ELSE tip
    /\ pick' = IF o = "ok" THEN NoPick ELSE pick
    /\ raced' = Raced("reset --hard", o)
    /\ UNCHANGED <<head, origin, mover>>

\* git push --force origin <b>: the remote branch takes the local ref's commit
PushForce(b, o) ==
    /\ Outcome(o, Exists(b))
    /\ origin' = IF o = "ok" THEN [origin EXCEPT ![b] = tip[b]] ELSE origin
    /\ UNCHANGED <<head, tip, pick, mover, raced>>

\* the checked-out ref has the change of commit h already
Applied(h) == \E k \in 1..Len(tip[head]) : tip[head][k] = h

\* git cherry-pick <h>: a new commit on the checked-out ref, or a failure
\* that leaves a conflict (in Cargo.lock only, or in another file), an empty
\* pick (the change is there already) or nothing
CherryPickCmd(h, o, conflict) ==
    /\ Outcome(o, pick.st = "idle" /\ ~Applied(h) /\ conflict = "idle")
    /\ conflict # "idle" => (o = "fail" /\ pick.st = "idle" /\ ~Applied(h))
    /\ tip' = IF o = "ok" THEN [tip EXCEPT ![head] = Append(tip[head], h)] ELSE tip
    /\ pick' = IF conflict # "idle" THEN [st |-> conflict, c |-> h]
               ELSE IF o = "fail" /\ pick.st = "idle" /\ Applied(h)
                    THEN [st |-> "empty", c |-> h]
               ELSE pick
    /\ raced' = Raced("cherry-pick", o)
    /\ UNCHANGED <<head, origin, mover>>

\* `git add .` in place of `git add Cargo.lock`: stages every conflicted file
AddLockfile_Everything(o) ==
    /\ Outcome(o, TRUE)
    /\ pick' = IF o = "ok" /\ pick.st \in {"lock", "other"}
               THEN [pick EXCEPT !.st = "resolved"]
               ELSE pick
    /\ UNCHANGED <<head, tip, origin, mover, raced>>

\* git add Cargo.lock: marks a conflict confined to Cargo.lock as resolved
AddLockfile(o) ==
    /\ Outcome(o, TRUE)
    /\ pick' = IF o = "ok" /\ pick.st = "lock" THEN [pick EXCEPT !.st = "resolved"]
               ELSE pick
    /\ UNCHANGED <<head, tip, origin, mover, raced>>

\* git cherry-pick --continue: commits the pick when no conflict is left
ContinueCmd(o) ==
    /\ Outcome(o, pick.st = "resolved")
    /\ tip' = IF o = "ok" THEN [tip EXCEPT ![head] = Append(tip[head], pick.c)] ELSE tip
    /\ pick' = IF o = "ok" THEN NoPick ELSE pick
    /\ raced' = Raced("cherry-pick", o)
    /\ UNCHANGED <<head, origin, mover>>

\* git cherry-pick --abort: ends the pick in progress
AbortCmd(o) ==
    /\ Outcome(o, pick.st # "idle")
    /\ pick' = IF o = "ok" THEN NoPick ELSE pick
    /\ UNCHANGED <<head, tip, origin, mover, raced>>

-----------------------------------------------------------------------------
(* The steps of main(). *)

Here == table[idx].branch_name

There == remaining_branches[idx].branch_name

\* the log of origin/<b> after a first run pushed a replayed commit on top
\* of main: the replayed commit under its new hash and with the subject of
\* the commit it replays, then main's history
RemoteLog(b) ==
    << pushed1[b].hash \o <<" ">> \o
           SubjectOf(LineOf(origin[b][Len(origin[b])])),
       L_docs >>

\* line 49: the exit statuses of the log pipeline
LogCodes == IF mode = "single" THEN {0, 1} ELSE {0}

\* lines 46-47: what git log prints for origin/<b>.  With two instances the
\* log has the one commit that both select.
LogSource(b) ==
    IF mode = "race" THEN { <<L_feat>> }
    ELSE IF run = 2 THEN { RemoteLog(b) }
    ELSE LogInputs

\* the change the commit with short hash h carries: in a second run the
\* replayed commit carries the change of the commit the first run replayed
ContentOf(h) ==
    IF run = 2 /\ h = pushed1[Here].hash
    THEN pushed1[Here].content[Len(pushed1[Here].content)]
    ELSE h

\* how a cherry-pick may conflict.  The commit replayed by the first run has
\* main's tip as its parent and applies as it is.
Conflicts == IF run = 2 THEN {"idle"} ELSE {"idle", "lock", "other"}

\* the cherry-pick is given the configured seed commit of the pair
PickTarget_Seed(pair, tc) == pair.commit_hash

\* line 65: the commit handed to `git cherry-pick` is test_commit; the
\* commit_hash of the pair (line 36) is not read
PickTarget(pair, tc) == tc

\* the command c enters the record of the run; d is the command the same
\* statement issues in the twin run, which has the locals, the repository
\* and the command outcomes of this run and the table of the source
IssuePair(c, d) == trace' = Append(trace, c) /\ twin' = Append(twin, d)

\* a command in which no field of the table's pair occurs but the branch
\* name, which the twin run shares
Issue(c) == IssuePair(c, c)

\* lines 11 and 18: run_cmd prints the command text, after the command
\* returned or when it timed out
Log(c) ==
    logged' = [kind |-> IF last' = "timeout" THEN "timeout" ELSE "exec", cmd |-> c]

Run(c) == Issue(c) /\ Log(c)

\* the result of a `git checkout main` or `git checkout -b` is noted
NoteCheckout == checkouts_ok' = (checkouts_ok /\ last' = "ok")

\* line 34
CheckoutMainFirst ==
    /\ pc = "start"
    /\ \E o \in Outcomes :
         /\ Checkout(MAIN, o)
         /\ last' = o
    /\ Run(Cmd("checkout", MAIN, None))
    /\ pc' = "loop"
    /\ UNCHANGED <<idx, commits, returncode, test_commit, replay>>
    /\ NoteCheckout
    /\ UNCHANGED setting

\* lines 36-40: the for statement takes the next pair.  The list commits is
\* not read again before line 50 replaces it; the model drops it here.
EnterIteration ==
    /\ pc = "loop"
    /\ idx <= NumBranches
    /\ Issue(Enter(Here))
    /\ replay' = "none"
    /\ commits' = <<>>
    /\ pc' = "delete_stale"
    /\ UNCHANGED <<idx, returncode, test_commit, last, repo>>
    /\ UNCHANGED <<logged, checkouts_ok>>
    /\ UNCHANGED setting

\* line 41
DeleteStaleClean ==
    /\ pc = "delete_stale"
    /\ \E o \in Outcomes :
         /\ BranchDelete(clean_branch(Here), o)
         /\ last' = OrTrue(o)
    /\ Run(Cmd("branch -D", clean_branch(Here), None))
    /\ pc' = "create_clean"
    /\ UNCHANGED <<idx, commits, returncode, test_commit, replay>>
    /\ UNCHANGED checkouts_ok
    /\ UNCHANGED setting

\* line 42
CreateClean ==
    /\ pc = "create_clean"
    /\ \E o \in Outcomes :
         /\ CheckoutNew(clean_branch(Here), o)
         /\ last' = o
    /\ Run(Cmd("checkout -b", clean_branch(Here), None))
    /\ pc' = "log"
    /\ UNCHANGED <<idx, commits, returncode, test_commit, replay>>
    /\ NoteCheckout
    /\ UNCHANGED setting

\* lines 46-63 and 78-80: git log | head -10 returns; the selection loop
FetchLog ==
    /\ pc = "log"
    /\ \E rc \in LogCodes, lines \in LogSource(Here) :
         LET window == SplitLines(HeadLines(lines))
             tc     == SelectCommit(window)
         IN  /\ returncode' = rc
             /\ commits' = IF rc = 0 THEN window ELSE commits
             /\ test_commit' = IF rc = 0 THEN tc ELSE test_commit
             /\ pc' = AfterLog(rc, test_commit', idx)
             /\ idx' = IF pc' \in {"loop", "done"} THEN idx + 1 ELSE idx
    /\ Issue(Cmd("log", Here, None))
    /\ UNCHANGED <<last, replay, repo>>
    /\ UNCHANGED <<logged, checkouts_ok>>
    /\ UNCHANGED setting

\* lines 46-47: subprocess.run is called without a timeout, so a git log
\* that does not return is waited for without end
LogBlocks ==
    /\ pc = "log"
    /\ Issue(Cmd("log", Here, None))
    /\ pc' = "log_blocked"
    /\ UNCHANGED <<idx, commits, returncode, test_commit, last, replay,
                   repo>>
    /\ UNCHANGED <<logged, checkouts_ok>>
    /\ UNCHANGED setting

\* lines 65-68.  The list commits is not read after line 61; the model
\* drops it here.
CherryPick ==
    /\ pc = "cherry_pick"
    /\ \E o \in Outcomes, conflict \in Conflicts :
         /\ CherryPickCmd(ContentOf(PickTarget(table[idx], test_commit)), o, conflict)
         /\ last' = o
         /\ replay' = IF run_cmd(o) THEN "picked" ELSE replay
         /\ pc' = AfterCherryPick(run_cmd(o))
    /\ IssuePair(Cmd("cherry-pick", Here, PickTarget(table[idx], test_commit)),
                 Cmd("cherry-pick", There,
                     PickTarget(remaining_branches[idx], test_commit)))
    /\ Log(Cmd("cherry-pick", Here, PickTarget(table[idx], test_commit)))
    /\ commits' = <<>>
    /\ UNCHANGED <<idx, returncode, test_commit>>
    /\ UNCHANGED checkouts_ok
    /\ UNCHANGED setting

\* line 70
CheckoutTheirs ==
    /\ pc = "theirs"
    /\ \E o \in Outcomes :
         /\ Outcome(o, TRUE)
         /\ last' = OrTrue(o)
    /\ Run(Cmd("checkout --theirs", Here, None))
    /\ pc' = "add"
    /\ UNCHANGED <<idx, commits, returncode, test_commit, replay, repo>>
    /\ UNCHANGED checkouts_ok
    /\ UNCHANGED setting

\* line 71
AddLock ==
    /\ pc = "add"
    /\ \E o \in Outcomes :
         /\ AddLockfile(o)
         /\ last' = OrTrue(o)
    /\ Run(Cmd("add", Here, None))
    /\ pc' = "continue"
    /\ UNCHANGED <<idx, commits, returncode, test_commit, replay>>
    /\ UNCHANGED checkouts_ok
    /\ UNCHANGED setting

\* lines 72-75
Continue ==
    /\ pc = "continue"
    /\ \E o \in Outcomes :
         /\ ContinueCmd(o)
         /\ last' = o
         /\ replay' = IF run_cmd(o) THEN "resolved" ELSE "failed"
         /\ pc' = AfterContinue(run_cmd(o))
    /\ Run(Cmd("cherry-pick --continue", Here, None))
    /\ UNCHANGED <<idx, commits, returncode, test_commit>>
    /\ UNCHANGED checkouts_ok
    /\ UNCHANGED setting

\* lines 76-77
Abort ==
    /\ pc = "abort"
    /\ \E o \in Outcomes :
         /\ AbortCmd(o)
         /\ last' = o
    /\ Run(Cmd("cherry-pick --abort", Here, None))
    /\ pc' = AfterAbort(idx)
    /\ idx' = IF pc' \in {"loop", "done"} THEN idx + 1 ELSE idx
    /\ UNCHANGED <<commits, returncode, test_commit, replay>>
    /\ UNCHANGED checkouts_ok
    /\ UNCHANGED setting

\* line 84
CheckoutBranch ==
    /\ pc = "checkout_branch"
    /\ \E o \in Outcomes :
         /\ Checkout(Here, o)
         /\ last' = o
    /\ Run(Cmd("checkout", Here, None))
    /\ pc' = AfterCheckoutBranch
    /\ UNCHANGED <<idx, commits, returncode, test_commit, replay>>
    /\ UNCHANGED checkouts_ok
    /\ UNCHANGED setting

\* line 85
Reset ==
    /\ pc = "reset"
    /\ \E o \in Outcomes :
         /\ ResetHard(clean_branch(Here), o)
         /\ last' = o
    /\ Run(Cmd("reset --hard", clean_branch(Here), None))
    /\ pc' = AfterReset
    /\ UNCHANGED <<idx, commits, returncode, test_commit, replay>>
    /\ UNCHANGED checkouts_ok
    /\ UNCHANGED setting

\* lines 89-92
Push ==
    /\ pc = "push"
    /\ \E o \in Outcomes :
         /\ PushForce(Here, o)
         /\ last' = o
         /\ pc' = AfterPush(run_cmd(o))
    /\ Run(Cmd("push --force", Here, None))
    /\ UNCHANGED <<idx, commits, returncode, test_commit, replay>>
    /\ UNCHANGED checkouts_ok
    /\ UNCHANGED setting

\* line 95
DeleteClean ==
    /\ pc = "delete_clean"
    /\ \E o \in Outcomes :
         /\ BranchDelete(clean_branch(Here), o)
         /\ last' = o
    /\ Run(Cmd("branch -D", clean_branch(Here), None))
    /\ pc' = "checkout_main"
    /\ UNCHANGED <<idx, commits, returncode, test_commit, replay>>
    /\ UNCHANGED checkouts_ok
    /\ UNCHANGED setting

\* line 96
CheckoutMain ==
    /\ pc = "checkout_main"
    /\ \E o \in Outcomes :
         /\ Checkout(MAIN, o)
         /\ last' = o
    /\ Run(Cmd("checkout", MAIN, None))
    /\ pc' = AfterCleanup(idx)
    /\ idx' = IF pc' \in {"loop", "done"} THEN idx + 1 ELSE idx
    /\ UNCHANGED <<commits, returncode, test_commit, replay>>
    /\ NoteCheckout
    /\ UNCHANGED setting

\* the run is over and pushed, for every branch, one replayed commit on top
\* of main
FirstRunPublished ==
    /\ pc = "done"
    /\ \A b \in Branches :
         /\ Len(origin[b]) = Len(MainTip) + 1
         /\ SubSeq(origin[b], 1, Len(MainTip)) = MainTip
         /\ tip[b] = origin[b]

\* lines 99-100: the script is started again in the repository the first
\* run left
Restart ==
    /\ mode = "twice"
    /\ run = 1
    /\ FirstRunPublished
    /\ \E nh \in [Branches -> NewHashes] :
         pushed1' = [b \in Branches |-> [content |-> origin[b], hash |-> nh[b]]]
    /\ run' = 2
    /\ SetLocals(FreshLocals)
    /\ UNCHANGED <<repo, mode, table, active, other, switches>>

\* two instances of the script in one working tree: the instance that runs
\* is suspended between two of its commands and the other one goes on
Switch ==
    /\ mode = "race"
    /\ switches < MaxSwitches
    /\ SetLocals(other)
    /\ other' = CurrentLocals
    /\ active' = 3 - active
    /\ switches' = switches + 1
    /\ UNCHANGED <<repo, mode, table, run, pushed1>>

Next ==
    \/ CheckoutMainFirst
    \/ EnterIteration
    \/ DeleteStaleClean
    \/ CreateClean
    \/ FetchLog
    \/ LogBlocks
    \/ CherryPick
    \/ CheckoutTheirs
    \/ AddLock
    \/ Continue
    \/ Abort
    \/ CheckoutBranch
    \/ Reset
    \/ Push
    \/ DeleteClean
    \/ CheckoutMain

Spec == Init /\ [][Next]_vars

\* tables that differ from the source's in the seed commits only: the
\* source's, the one with the two seeds exchanged, and one whose first seed
\* is a commit of the log window
SeedTables ==
    { remaining_branches,
      [k \in 1..NumBranches |->
          [remaining_branches[k] EXCEPT
              !.commit_hash = remaining_branches[NumBranches + 1 - k].commit_hash]],
      [remaining_branches EXCEPT ![1].commit_hash = FirstWord(L_feat)] }

\* one driver run with any of these tables
SeedInit ==
    /\ Started
    /\ mode = "single"
    /\ table \in SeedTables

SeedSpec == SeedInit /\ [][Next]_vars

\* two runs in succession, commands reliable
TwiceInit ==
    /\ Started
    /\ mode = "twice"
    /\ table = remaining_branches

TwiceNext == Next \/ Restart

TwiceSpec == TwiceInit /\ [][TwiceNext]_vars

\* two instances started in the same working tree, commands reliable
RaceInit ==
    /\ Started
    /\ mode = "race"
    /\ table = remaining_branches

RaceNext == Next \/ Switch

RaceSpec == RaceInit /\ [][RaceNext]_vars

\* main() is one sequential process: a step that can be taken is taken
FairSpec == Spec /\ WF_vars(Next)

TypeOK ==
    /\ pc \in {"start", "loop", "delete_stale", "create_clean", "log", "log_blocked",
               "cherry_pick", "theirs", "add", "continue", "abort", "checkout_branch",
               "reset", "push", "delete_clean", "checkout_main", "done"}
    /\ idx \in 1..(NumBranches + 1)
    /\ returncode \in {0, 1}
    /\ last \in Outcomes
    /\ replay \in {"none", "picked", "resolved", "failed"}
    /\ head \in Refs
    /\ DOMAIN tip = Refs
    /\ DOMAIN origin = Branches
    /\ pick.st \in {"idle", "lock", "other", "empty", "resolved"}
    /\ mover \in 0..2
    /\ raced \subseteq {"cherry-pick", "reset --hard"}
    /\ run \in 1..2
    /\ active \in 1..2

-----------------------------------------------------------------------------
(* Vocabulary of the properties. *)

IsCmd(e, c) == e.cmd = c

EnterPositions == { k \in 1..Len(trace) : IsCmd(trace[k], "ENTER") }

\* position in the trace where the current iteration was entered, 0 before
LastEnter ==
    IF EnterPositions = {} THEN 0
    ELSE CHOOSE k \in EnterPositions : \A j \in EnterPositions : j <= k

\* what the current iteration has issued so far (its ENTER mark first)
Segment == IF LastEnter = 0 THEN <<>> ELSE SubSeq(trace, LastEnter, Len(trace))

\* the branch of the current iteration and its place in the table
SegmentBranch == Segment[1].ref
SegmentIndex == CHOOSE k \in 1..NumBranches : BranchName(k) = SegmentBranch

Issued(seq, c) == { k \in 1..Len(seq) : IsCmd(seq[k], c) }

\* the branches whose iteration was entered, in order
Entered ==
    LET marks == SelectSeq(trace, LAMBDA e : IsCmd(e, "ENTER"))
    IN  [k \in 1..Len(marks) |-> marks[k].ref]

TableOrder == [k \in 1..NumBranches |-> BranchName(k)]

IsPrefix(a, b) == Len(a) <= Len(b) /\ a = SubSeq(b, 1, Len(a))

TextHasKeyword(text) ==
    \/ Contains(Lower(text), <<"t","e","s","t">>)
    \/ Contains(Lower(text), <<"f","e","a","t",":">>)
    \/ Contains(Lower(text), <<"a","d","d">>)

TextExcluded(text) ==
    \/ Contains(Lower(text), <<"c","a","r","g","o",".","l","o","c","k">>)
    \/ Contains(Lower(text), <<"f","o","r","m","a","t">>)

SubjectEligible(line) ==
    TextHasKeyword(SubjectOf(line)) /\ ~TextExcluded(SubjectOf(line))

LineEligible(line) == TextHasKeyword(line) /\ ~TextExcluded(line)

\* the commands that replace the original branch
PublishCmd(e, b) ==
    \/ IsCmd(e, "cherry-pick")
    \/ e = Cmd("checkout", b, None)
    \/ IsCmd(e, "reset --hard")
    \/ IsCmd(e, "push --force")

-----------------------------------------------------------------------------
(* C1. A reset or a force-push is issued in an iteration only after a      *)
(* successful replay in that iteration: the cherry-pick of a selected      *)
(* commit succeeded, or its continuation did.                              *)
C1_PushOnlyAfterReplay ==
    \A k \in 1..Len(Segment) :
        (IsCmd(Segment[k], "reset --hard") \/ IsCmd(Segment[k], "push --force"))
            => replay \in {"picked", "resolved"}

(* C2. Every iteration is entered right after a `git checkout main`: the   *)
(* command issued last before each ENTER mark is the checkout of main.     *)
C2_CheckoutMainBeforeEach ==
    \A k \in EnterPositions :
        k > 1 /\ trace[k - 1] = Cmd("checkout", MAIN, None)

(* C3. The selector returns the hash of the first of the at most 10 lines  *)
(* whose subject has a keyword and no excluded word, and None exactly when *)
(* no subject qualifies.                                                   *)
C3_SelectsBySubject ==
    commits # <<>> =>
        LET E == { k \in 1..Len(commits) : SubjectEligible(commits[k]) }
        IN  /\ Len(commits) <= HEAD_COUNT
            /\ test_commit =
                 IF E = {} THEN None
                 ELSE FirstWord(commits[CHOOSE k \in E : \A j \in E : k <= j])

(* C4. A line containing 'cargo.lock' or 'format' is never the selected    *)
(* one; when the window has an eligible line the selection is an eligible  *)
(* line's hash; and the commit handed to cherry-pick is the selection,     *)
(* never the hash of an excluded line of the window.                       *)
C4_ExcludedNeverSelected ==
    [][ /\ commits' # <<>> =>
            /\ \A k \in 1..Len(commits') :
                 TextExcluded(commits'[k]) => test_commit' # FirstWord(commits'[k])
            /\ (\E k \in 1..Len(commits') : LineEligible(commits'[k])) =>
                 \E k \in 1..Len(commits') :
                     /\ LineEligible(commits'[k])
                     /\ test_commit' = FirstWord(commits'[k])
        /\ (Len(trace') > Len(trace) /\ IsCmd(trace'[Len(trace')], "cherry-pick")) =>
            /\ trace'[Len(trace')].commit = test_commit
            /\ test_commit # None
            /\ \A k \in 1..Len(commits) :
                 TextExcluded(commits[k]) =>
                     trace'[Len(trace')].commit # FirstWord(commits[k])
      ]_vars

\* an excluded line that has a keyword precedes the eligible line that was
\* selected, and the cherry-pick of the selection is about to be issued
C4_Witness ==
    /\ pc = "cherry_pick"
    /\ \E j, k \in 1..Len(commits) :
         /\ j < k
         /\ TextHasKeyword(commits[j]) /\ TextExcluded(commits[j])
         /\ LineEligible(commits[k])
         /\ test_commit = FirstWord(commits[k])

(* C5. When the fetched window has no line with a keyword, the iteration   *)
(* is over right after the selection: nothing is selected, the driver is   *)
(* at the next pair (or at its end), and the iteration has issued no       *)
(* cherry-pick, no checkout of the branch, no reset and no push.           *)
C5_NoKeywordAbandons ==
    (/\ returncode = 0
     /\ commits # <<>>
     /\ \A k \in 1..Len(commits) : ~TextHasKeyword(commits[k]))
    => /\ test_commit = None
       /\ pc = NextPair(SegmentIndex)
       /\ idx = SegmentIndex + 1
       /\ IsCmd(trace[Len(trace)], "log")
       /\ \A k \in 1..Len(Segment) : ~PublishCmd(Segment[k], SegmentBranch)

\* a full window of ten lines, none with a keyword, was fetched and the
\* first iteration was left right after the log command
C5_Witness ==
    /\ returncode = 0
    /\ commits # <<>>
    /\ \A k \in 1..Len(commits) : ~TextHasKeyword(commits[k])
    /\ Len(commits) = HEAD_COUNT
    /\ pc = "loop"
    /\ IsCmd(trace[Len(trace)], "log")

(* C6. When the cherry-pick and its continuation both failed, the abort    *)
(* is issued exactly once, the iteration issues no reset and no push, the  *)
(* driver moves to the next pair, and a successful abort leaves no         *)
(* cherry-pick in progress.                                                *)
C6_AbortAndSkip ==
    replay = "failed" =>
        /\ Issued(Segment, "reset --hard") = {}
        /\ Issued(Segment, "push --force") = {}
        /\ Cardinality(Issued(Segment, "cherry-pick")) = 1
        /\ Cardinality(Issued(Segment, "cherry-pick --continue")) = 1
        /\ IF pc = "abort"
           THEN /\ Issued(Segment, "cherry-pick --abort") = {}
                /\ idx = SegmentIndex
           ELSE /\ Cardinality(Issued(Segment, "cherry-pick --abort")) = 1
                /\ IsCmd(trace[Len(trace)], "cherry-pick --abort")
                /\ pc = NextPair(SegmentIndex)
                /\ idx = SegmentIndex + 1
                /\ last = "ok" => pick.st = "idle"

\* the first branch was abandoned after a conflict, the abort succeeded and
\* the driver stands at the second pair
C6_Witness ==
    /\ replay = "failed"
    /\ pc = "loop"
    /\ idx = 2
    /\ last = "ok"
    /\ IsCmd(trace[Len(trace)], "cherry-pick --abort")
    /\ pick.st = "idle"

\* what an iteration issues after a successful replay
PublishSeq(b) ==
    << Cmd("checkout", b, None),
       Cmd("reset --hard", clean_branch(b), None),
       Cmd("push --force", b, None),
       Cmd("branch -D", clean_branch(b), None),
       Cmd("checkout", MAIN, None) >>

PublishPc(n, k) ==
    IF n = 0 THEN "checkout_branch"
    ELSE IF n = 1 THEN "reset"
    ELSE IF n = 2 THEN "push"
    ELSE IF n = 3 THEN "delete_clean"
    ELSE IF n = 4 THEN "checkout_main"
    ELSE NextPair(k)

(* C7. When the cherry-pick failed and the continuation succeeded, the     *)
(* iteration has issued the two resolution commands between them, issues   *)
(* no abort, and goes on with checkout of the branch, hard reset to its    *)
(* clean branch and force-push, in this order.                             *)
C7_ResolvedPublishes ==
    replay = "resolved" =>
        LET b == SegmentBranch
            c == CHOOSE k \in 1..Len(Segment) : IsCmd(Segment[k], "cherry-pick --continue")
            after == SubSeq(Segment, c + 1, Len(Segment))
        IN  /\ Cardinality(Issued(Segment, "cherry-pick --continue")) = 1
            /\ c = 8
            /\ IsCmd(Segment[c - 3], "cherry-pick")
            /\ IsCmd(Segment[c - 2], "checkout --theirs")
            /\ IsCmd(Segment[c - 1], "add")
            /\ Issued(Segment, "cherry-pick --abort") = {}
            /\ IsPrefix(after, PublishSeq(b))
            /\ pc = PublishPc(Len(after), SegmentIndex)

\* after a resolved conflict the force-push of the branch has been issued
C7_Witness ==
    /\ replay = "resolved"
    /\ Issued(Segment, "push --force") # {}
    /\ last = "ok"
    /\ IsCmd(trace[Len(trace)], "push --force")

(* C8. Every command is cut by its timeout, so the run always reaches its  *)
(* end.                                                                    *)
C8_RunEnds == <>(pc = "done")

(* C9. Whatever the commands' outcomes, the iterations are entered in      *)
(* table order, each once, and the run reaches its normal end with all of  *)
(* them entered; only a git log that never returns keeps it from there.    *)
C9_EveryBranchVisited ==
    /\ [](IsPrefix(Entered, TableOrder))
    /\ [](pc = "done" => Entered = TableOrder)
    /\ <>(pc = "done" \/ pc = "log_blocked")

\* the run ended after the first branch was abandoned with a failed replay
\* and the second was entered all the same
C9_Witness ==
    /\ pc = "done"
    /\ Entered = TableOrder
    /\ \E k \in 1..Len(trace) :
         /\ IsCmd(trace[k], "cherry-pick --abort")
         /\ trace[k].ref = BranchName(1)

(* C10. When the force-push of a branch is issued, the local ref of the    *)
(* branch is at the tip of its clean branch.                               *)
C10_PushedIsClean ==
    (trace # <<>> /\ IsCmd(trace[Len(trace)], "push --force")) =>
        LET b == trace[Len(trace)].ref
        IN  tip[b] = tip[clean_branch(b)]

(* C11. A conflict outside Cargo.lock is never resolved by the driver: the *)
(* two resolution commands leave it as it is, the continuation then fails, *)
(* the abort follows, and while the conflict stands the iteration has      *)
(* issued no reset and no push.                                            *)
C11_OnlyLockfileResolved ==
    [][ /\ (pick.st = "other" /\ pc \in {"theirs", "add"}) => pick' = pick
        /\ (pick.st = "other" /\ pc = "continue") =>
              /\ pc' = "abort"
              /\ replay' = "failed"
              /\ tip' = tip
        /\ (pick.st = "other" /\ pc = "abort") =>
              /\ IsCmd(trace'[Len(trace')], "cherry-pick --abort")
              /\ pc' = NextPair(idx)
              /\ Issued(Segment', "reset --hard") = {}
              /\ Issued(Segment', "push --force") = {}
              /\ origin' = origin
      ]_vars

\* the cherry-pick of this iteration left a conflict outside Cargo.lock, the
\* resolution and the continuation have run, and the abort is next
C11_Witness ==
    /\ pc = "abort"
    /\ pick = [st |-> "other", c |-> test_commit]
    /\ replay = "failed"
    /\ Cardinality(Issued(Segment, "add")) = 1

(* C12. Provided every `git checkout main` and `git checkout -b` issued so *)
(* far succeeded, a clean branch that has just been created is checked out *)
(* and starts at main's tip, which is the commit main had before the run.  *)
C12_CleanStartsAtMain ==
    (/\ checkouts_ok
     /\ trace # <<>>
     /\ IsCmd(trace[Len(trace)], "checkout -b"))
    => /\ head = trace[Len(trace)].ref
       /\ tip[trace[Len(trace)].ref] = tip[MAIN]
       /\ tip[MAIN] = MainTip

\* the first branch was abandoned at replay, no checkout of main came in
\* between, and the clean branch of the second branch has been created
C12_Witness ==
    /\ checkouts_ok
    /\ idx = 2
    /\ IsCmd(trace[Len(trace)], "checkout -b")
    /\ IsCmd(trace[Len(trace) - 3], "cherry-pick --abort")
    /\ tip[clean_branch(BranchName(2))] = MainTip

PushesOf(b) ==
    { k \in 1..Len(trace) : IsCmd(trace[k], "push --force") /\ trace[k].ref = b }

(* C13. A failed force-push is not repeated: a branch is pushed at most    *)
(* once in a run.  After the failed push the driver issues the delete of   *)
(* the clean branch and then the checkout of main, as after a successful   *)
(* one, and neither the failed push nor the cleanup moves the local ref of *)
(* the branch.                                                             *)
C13_FailedPushNoRetry ==
    /\ [](\A b \in Branches : Cardinality(PushesOf(b)) <= 1)
    /\ [][ /\ (pc = "push" /\ last' # "ok") =>
                /\ pc' = "delete_clean"
                /\ tip' = tip
                /\ origin' = origin
           /\ pc = "delete_clean" =>
                /\ trace' = Append(trace, Cmd("branch -D", clean_branch(Here), None))
                /\ pc' = "checkout_main"
                /\ tip'[Here] = tip[Here]
           /\ pc = "checkout_main" =>
                /\ trace' = Append(trace, Cmd("checkout", MAIN, None))
                /\ pc' = NextPair(idx)
                /\ tip'[Here] = tip[Here]
         ]_vars

\* the push of the first branch failed after a successful replay and reset:
\* the cleanup has run, the local ref holds the replayed commit and the
\* remote branch its old one
C13_Witness ==
    /\ pc = "loop"
    /\ idx = 2
    /\ Len(trace) >= 3
    /\ SubSeq(trace, Len(trace) - 2, Len(trace)) =
         << Cmd("push --force", BranchName(1), None),
            Cmd("branch -D", clean_branch(BranchName(1)), None),
            Cmd("checkout", MAIN, None) >>
    /\ Len(tip[BranchName(1)]) = 2
    /\ tip[BranchName(1)][1] = MainTip[1]
    /\ origin[BranchName(1)] = OldTip

\* what the iteration of branch b has issued, from its ENTER mark to the
\* next one
SegmentOf(b) ==
    LET mine == { k \in EnterPositions : trace[k].ref = b }
    IN  IF mine = {} THEN <<>>
        ELSE LET s == CHOOSE k \in mine : TRUE
                 later == { j \in EnterPositions : j > s }
                 e == IF later = {} THEN Len(trace)
                      ELSE (CHOOSE j \in later : \A i \in later : j <= i) - 1
             IN  SubSeq(trace, s, e)

\* the iteration of b took one of the two `continue` statements: after the
\* abort of its cherry-pick (line 77), or right after the log (line 80)
Abandoned(b) ==
    LET s == SegmentOf(b)
    IN  /\ s # <<>>
        /\ \/ Issued(s, "cherry-pick --abort") # {}
           \/ /\ IsCmd(s[Len(s)], "log")
              /\ (s = Segment => pc \in {"loop", "done"})

\* the steps an abandoned iteration is made of
OnAbandonPath ==
    \/ pc \in {"delete_stale", "create_clean", "log", "theirs", "add", "abort"}
    \/ pc \in {"cherry_pick", "continue"} /\ last' # "ok"

(* C14. An abandoned iteration is not rolled back.  Its only delete of the *)
(* clean branch is the one issued before the clean branch was created, and *)
(* it issues no checkout, reset or push.  A clean branch created with      *)
(* success exists from then on through the abandonment, and the clean      *)
(* branch of an abandoned branch that exists keeps existing in every later *)
(* step of the run.  No step of an abandoned iteration changes the local   *)
(* ref of its branch or any remote branch.                                 *)
C14_NoRollbackOnAbandon ==
    /\ [](\A b \in Branches : Abandoned(b) =>
            /\ Issued(SegmentOf(b), "branch -D") = {2}
            /\ Issued(SegmentOf(b), "checkout -b") = {3}
            /\ Issued(SegmentOf(b), "checkout") = {}
            /\ Issued(SegmentOf(b), "reset --hard") = {}
            /\ Issued(SegmentOf(b), "push --force") = {})
    /\ [][ /\ (pc = "create_clean" /\ last' = "ok") => Exists(clean_branch(Here))'
           /\ (OnAbandonPath /\ pc \notin {"delete_stale", "create_clean"}) =>
                 tip'[clean_branch(Here)] = tip[clean_branch(Here)]
           /\ OnAbandonPath => (tip'[Here] = tip[Here] /\ origin' = origin)
           /\ \A b \in Branches :
                 (Abandoned(b) /\ Exists(clean_branch(b))) => Exists(clean_branch(b))'
         ]_vars

\* the run is over: the first branch was abandoned after an abort, its clean
\* branch, created in this run at main's tip, is still there, its local and
\* remote refs are the old ones, and the second branch was pushed
C14_Witness ==
    /\ pc = "done"
    /\ Abandoned(BranchName(1))
    /\ Issued(SegmentOf(BranchName(1)), "cherry-pick --abort") # {}
    /\ tip[clean_branch(BranchName(1))] = MainTip
    /\ tip[BranchName(1)] = OldTip
    /\ origin[BranchName(1)] = OldTip
    /\ Issued(SegmentOf(BranchName(2)), "push --force") # {}
    /\ origin[BranchName(2)] # OldTip

(* C16. Every external command that has returned or timed out has a log    *)
(* record carrying its command text: the record printed last is the one of *)
(* the command issued last, the `git log` of the iteration included, and   *)
(* with it a `git log` that returned non-zero.                             *)
C16_EveryCommandLogged ==
    (/\ trace # <<>>
     /\ ~IsCmd(trace[Len(trace)], "ENTER")
     /\ pc # "log_blocked")
    => /\ logged.kind \in {"exec", "timeout"}
       /\ logged.cmd = trace[Len(trace)]

(* C18. The seed commits of the table have no influence on the run.  A run *)
(* with any table that differs from the source's in the seeds only issues, *)
(* statement by statement, the commands that the run with the source's     *)
(* table issues from the same locals, repository and command outcomes, so  *)
(* the two runs stay in step.  The commit given to `git cherry-pick` and   *)
(* added to the checked-out ref is the one selected from the log window,   *)
(* whatever the seed of the pair is.                                       *)
C18_SeedHasNoInfluence ==
    /\ [](twin = trace)
    /\ [](pc = "cherry_pick" => test_commit = SelectCommit(commits))
    /\ [][ pc = "cherry_pick" =>
             /\ trace'[Len(trace')] = Cmd("cherry-pick", Here, test_commit)
             /\ last' = "ok" => tip'[head] = Append(tip[head], test_commit)
         ]_vars

\* a run whose table is not the source's has replayed, for its first pair,
\* a commit of the window that is not the seed of the pair
C18_Witness ==
    /\ table # remaining_branches
    /\ idx = 1
    /\ replay = "picked"
    /\ IsCmd(trace[Len(trace)], "cherry-pick")
    /\ trace[Len(trace)].commit = test_commit
    /\ test_commit # table[1].commit_hash
    /\ tip[head] = Append(MainTip, test_commit)

(* C15. In a second run that follows a first run which published every     *)
(* branch, the selector picks for each branch the replayed commit that the *)
(* first run pushed, every branch is pushed again, and what is pushed is   *)
(* what the first run pushed.                                              *)
C15_SecondRunReselects ==
    run = 2 =>
      /\ (/\ trace # <<>>
          /\ IsCmd(trace[Len(trace)], "log")
          /\ pc # "log_blocked")
            => test_commit = pushed1[SegmentBranch].hash
      /\ \A b \in Branches : PushesOf(b) # {} => origin[b] = pushed1[b].content
      /\ pc = "done" => \A b \in Branches : PushesOf(b) # {}

\* what an instance's replay leaves on its clean branch when the log is the
\* one of LogSource: the selected commit on top of main
ReplayResult == Append(MainTip, FirstWord(L_feat))

\* a remote branch was given something else than a replay result
PushedAstray == \E b \in Branches : origin[b] \notin {OldTip, ReplayResult}

(* C17. As long as one instance runs alone, with reliable commands, no     *)
(* cherry-pick or hard reset is applied under a HEAD that another instance *)
(* put in place, and every push sends the result of the instance's replay. *)
(* With the commands of two instances interleaved both can happen.         *)
C17_RaceNeedsTwoInstances ==
    switches = 0 => (raced = {} /\ ~PushedAstray)

\* the commands of two instances were interleaved: a cherry-pick was applied
\* under the HEAD the other instance had put in place, and a branch was
\* pushed whose local ref did not hold the replay result
C17_Witness ==
    /\ switches > 0
    /\ "cherry-pick" \in raced
    /\ PushedAstray

====
